---- MODULE Spec2Model ----
(***************************************************************************)
(* A model of longhorn-backup-repacker (src/main.go): the lookup of the    *)
(* volume and of block payloads in the two-level sharded store, the load   *)
(* of the backup catalog, the replay of every block onto the output image  *)
(* and the sizing of the image from the ext4 superblock.                   *)
(*                                                                         *)
(* Names (volume names, shard names, checksums) are sequences of one-      *)
(* character strings, because filepath.Glob reads them as patterns.        *)
(* 64-bit integers whose magnitude matters (the superblock fields, the     *)
(* image size) are sets of bit positions: bit i stands for 2^i.            *)
(***************************************************************************)
EXTENDS Integers, Sequences, FiniteSets, TLC

VARIABLES
    pc,          \* position of main: "start", "found", "loaded", ... , "done", "exit1", "panic"
    describe,    \* the -describe flag, set when main reads it
    store,       \* the volumes tree of the backup store (a set of paths)
    volumePath,  \* result of findVolumeBackupPath
    listing,     \* descriptor contents, in the order filepath.Glob lists backups/*.cfg
    cfgIO,       \* per descriptor, what opening and reading the file did
    loaded,      \* whether main has called readBackups, and what it returned: [called, err, vb]
    outFile,     \* the output file: [exists, size, data, pos]
    cursor,      \* replay position: [b, k], backup and block index
    faulted,     \* whether the environment has failed an I/O operation (at most one per run)
    superblock,  \* what readSuperblock returned
    log,         \* history: the operations issued on the output file
    exitMsg,     \* the message printed before a failure exit
    probe        \* input and result of a stand-alone lookup (SpecLookup)

vars == <<pc, describe, store, volumePath, listing, cfgIO, loaded, outFile,
          cursor, faulted, superblock, log, exitMsg, probe>>

----------------------------------------------------------------------------
(* Bounds of the model *)

\* the most descriptors a backups directory holds
MaxBackups == 2
\* the most entries of a tree a stand-alone lookup is made in
MaxEntries == 2

----------------------------------------------------------------------------
(* Generic helpers *)

RECURSIVE Pow2Of(_)
Pow2Of(n) == IF n = 0 THEN 1 ELSE 2 * Pow2Of(n - 1)

Pow2Table == [i \in 0..30 |-> Pow2Of(i)]

Pow2(n) == Pow2Table[n]

\* the bits of a small natural number
NatToBits(n) == {i \in 0..30 : (n \div Pow2(i)) % 2 = 1}

RECURSIVE BitsToNat(_)
\* the value of a set of bit positions, all below 31
BitsToNat(S) ==
    IF S = {} THEN 0
    ELSE LET i == CHOOSE x \in S : TRUE IN Pow2(i) + BitsToNat(S \ {i})

\* n < value(S), for a small natural n and any set of bit positions
NatLessBits(n, S) == (\E i \in S : i > 30) \/ n < BitsToNat(S)

\* width of Go's int and int64 on the 64-bit targets the tool is built for
IntWidth == 64

RECURSIVE AddBits(_, _, _, _)
\* ripple-carry sum of two IntWidth-bit values, wrapping
AddBits(a, b, i, carry) ==
    IF i = IntWidth THEN {}
    ELSE LET s == (IF i \in a THEN 1 ELSE 0) + (IF i \in b THEN 1 ELSE 0) + carry
         IN (IF s % 2 = 1 THEN {i} ELSE {}) \cup AddBits(a, b, i + 1, s \div 2)

Add64(a, b) == AddBits(a, b, 0, 0)

\* a << n on an IntWidth-bit value: bits shifted out are lost
Shl64(a, n) == {i + n : i \in a} \cap (0..(IntWidth - 1))

RECURSIVE Mul64(_, _)
\* a * b on IntWidth-bit values, wrapping: the sum of a << i over the bits i of b
Mul64(a, b) ==
    IF b = {} THEN {}
    ELSE LET i == CHOOSE x \in b : TRUE
         IN  Add64(Shl64(a, i), Mul64(a, b \ {i}))

\* a signed IntWidth-bit value is negative when its top bit is set
IsNegative64(a) == (IntWidth - 1) \in a

----------------------------------------------------------------------------
(* Names and paths.  A name is a sequence of characters; a path is a       *)
(* sequence of names, relative to <backup-root>/backupstore.  A tree is    *)
(* the set of the paths of its entries; an entry with entries below it is  *)
(* a directory.                                                            *)

\* the characters names are written in, in byte order
Alphabet == <<"*", ".", "0", "1", "2", "?", "a", "b", "c", "d", "e", "k", "l",
              "m", "o", "p", "s", "u", "v", "x">>

CharRank(c) == CHOOSE i \in 1..Len(Alphabet) : Alphabet[i] = c

RECURSIVE LessName(_, _)
\* Go's string order, as sort.Strings in filepath.Glob applies it
LessName(a, b) ==
    IF b = <<>> THEN FALSE
    ELSE IF a = <<>> THEN TRUE
    ELSE IF Head(a) # Head(b) THEN CharRank(Head(a)) < CharRank(Head(b))
    ELSE LessName(Tail(a), Tail(b))

RECURSIVE LessPath(_, _)
LessPath(p, q) ==
    IF q = <<>> THEN FALSE
    ELSE IF p = <<>> THEN TRUE
    ELSE IF Head(p) # Head(q) THEN LessName(Head(p), Head(q))
    ELSE LessPath(Tail(p), Tail(q))

Rep(c, n) == [i \in 1..n |-> c]

VolumesDir == <<"v", "o", "l", "u", "m", "e", "s">>
BlocksDir == <<"b", "l", "o", "c", "k", "s">>
BlkSuffix == <<".", "b", "l", "k">>
StarStar == <<"*", "*">>

RECURSIVE Match(_, _)
\* filepath.Match of one path component: '*' matches any sequence of
\* characters, '?' any one character, any other character itself.  (The
\* alphabet holds neither '[' nor '\\'.)
Match(pattern, name) ==
    IF pattern = <<>> THEN name = <<>>
    ELSE IF Head(pattern) = "*"
         THEN \E k \in 0..Len(name) :
                  Match(Tail(pattern), SubSeq(name, k + 1, Len(name)))
    ELSE IF name = <<>> THEN FALSE
    ELSE /\ (Head(pattern) = "?" \/ Head(pattern) = Head(name))
         /\ Match(Tail(pattern), Tail(name))

IsPrefix(p, q) == Len(p) <= Len(q) /\ SubSeq(q, 1, Len(p)) = p

\* the names of the entries of directory dir
Entries(tree, dir) ==
    {q[Len(dir) + 1] : q \in {r \in tree : Len(r) > Len(dir) /\ IsPrefix(dir, r)}}

RECURSIVE GlobFrom(_, _, _)
\* the paths below the directories dirs that match the pattern components
GlobFrom(tree, dirs, pattern) ==
    IF pattern = <<>> THEN dirs
    ELSE GlobFrom(tree,
                  UNION {{Append(d, n) : n \in {m \in Entries(tree, d) : Match(Head(pattern), m)}}
                         : d \in dirs},
                  Tail(pattern))

\* filepath.Glob: every match, of which First is matches[0]
Glob(tree, pattern) == GlobFrom(tree, {<<>>}, pattern)

First(matches) == CHOOSE p \in matches : \A q \in matches : q = p \/ LessPath(p, q)

\* the pattern findVolumeBackupPath builds, with every name kept as written
findVolumeBackupPath(tree, volumeName) ==
    LET matches == Glob(tree, <<VolumesDir, StarStar, StarStar, volumeName>>)
    IN  IF matches = {} THEN [path |-> <<>>, err |-> "notfound"]
        ELSE [path |-> First(matches), err |-> "nil"]

resolveBlockPath(tree, backupPath, checksum) ==
    LET matches == Glob(tree, backupPath \o <<BlocksDir, StarStar, StarStar, checksum \o BlkSuffix>>)
    IN  IF matches = {} THEN [path |-> <<>>, err |-> "notfound"]
        ELSE [path |-> First(matches), err |-> "nil"]

----------------------------------------------------------------------------
(* Block payloads and their decompression.  A payload is a sequence of     *)
(* bytes: a magic byte naming the frame format, then (count, value) pairs  *)
(* that decode to count copies of value.  The two formats differ in the    *)
(* magic byte only; what matters to the replay is that a payload is not    *)
(* its decoded content and that a payload of the wrong or of no format     *)
(* fails to decode.                                                        *)

RECURSIVE Expand(_)
Expand(body) ==
    IF Len(body) < 2 THEN <<>>
    ELSE Rep(body[2], body[1]) \o Expand(SubSeq(body, 3, Len(body)))

FrameMagic(method) == IF method = "lz4" THEN 4 ELSE 31

Decode(data, method) ==
    IF Len(data) >= 1 /\ data[1] = FrameMagic(method) /\ (Len(data) - 1) % 2 = 0
    THEN [data |-> Expand(Tail(data)), err |-> "nil"]
    ELSE [data |-> <<>>, err |-> "decode"]

decompressLZ4(data) == Decode(data, "lz4")

decompressGZIP(data) == Decode(data, "gzip")

\* the dispatch on the backup's compression method in main's replay loop
DecompressAs(compression, blockData) ==
    IF compression = "lz4" THEN decompressLZ4(blockData)
    ELSE IF compression = "gzip" THEN decompressGZIP(blockData)
    ELSE [data |-> blockData, err |-> "nil"]

----------------------------------------------------------------------------
(* The output file: its size (a set of bit positions), the bytes written   *)
(* (a function from positions; a position never written reads as 0) and    *)
(* the position of the descriptor.                                         *)

NoData == [p \in {} |-> 0]

EmptyFile == [size |-> {}, data |-> NoData, pos |-> 0]

ByteAt(f, p) == IF p \in DOMAIN f.data THEN f.data[p] ELSE 0

\* value(S) < n, for a small natural n
BitsLessNat(S, n) == (\A i \in S : i <= 30) /\ BitsToNat(S) < n

\* File.Seek(offset, io.SeekStart): a negative offset is an error (EINVAL)
\* and leaves the position where it was
fileSeek(f, offset) == IF offset < 0 THEN f ELSE [f EXCEPT !.pos = offset]

\* File.Write(data), of which the system accepted the first n bytes
\* (n < Len(data) is a failed write)
fileWrite(f, data, n) ==
    LET span == f.pos..(f.pos + n - 1)
    IN  [size |-> IF n > 0 /\ BitsLessNat(f.size, f.pos + n)
                  THEN NatToBits(f.pos + n) ELSE f.size,
         data |-> [p \in DOMAIN f.data \cup span |->
                       IF p \in span THEN data[p - f.pos + 1] ELSE f.data[p]],
         pos |-> f.pos + n]

\* neither call's error is looked at
writeBlockToBuffer(blockData, offset, fileDiscriptor, n) ==
    fileWrite(fileSeek(fileDiscriptor, offset), blockData, n)

\* File.Truncate(size): a negative size is an error (EINVAL), no change
fileTruncate(f, size) ==
    IF IsNegative64(size) THEN f
    ELSE [f EXCEPT !.size = size,
                   !.data = [p \in {q \in DOMAIN f.data : NatLessBits(q, size)} |-> f.data[p]]]

----------------------------------------------------------------------------
(* The superblock *)

\* const superblockOffset
superblockOffset == 1024
\* binary.Size(superblockRaw): seven uint32
superblockRawSize == 28
\* the base of the block size, 1024 << s_log_block_size
BlockSizeBase == 1024

ByteBits(b) == {i \in 0..7 : (b \div Pow2(i)) % 2 = 1}

\* the little-endian uint32 at byte offset off
Uint32At(f, off) == UNION {{8 * j + i : i \in ByteBits(ByteAt(f, off + j))} : j \in 0..3}

\* 1024 << s on an int, s a uint32: every bit is shifted out when s >= IntWidth
ShiftBlockSize(s) ==
    IF \E i \in s : i >= 6 THEN {}
    ELSE Shl64(NatToBits(BlockSizeBase), BitsToNat(s))

\* the variant that decodes the record whatever the read returned
readSuperblockUnchecked(f) ==
    [err |-> "nil",
     TotalBlocks |-> Uint32At(f, superblockOffset + 4),
     BlockSize |-> ShiftBlockSize(Uint32At(f, superblockOffset + 24))]

readSuperblock(f) ==
    IF BitsLessNat(f.size, superblockOffset + superblockRawSize)
    THEN [err |-> "eof", TotalBlocks |-> {}, BlockSize |-> {}]
    ELSE [err |-> "nil",
          TotalBlocks |-> Uint32At(f, superblockOffset + 4),
          BlockSize |-> ShiftBlockSize(Uint32At(f, superblockOffset + 24))]

\* int64(superblock.TotalBlocks * superblock.BlockSize)
ImageSize(sb) == Mul64(sb.TotalBlocks, sb.BlockSize)

----------------------------------------------------------------------------
(* Backup descriptors and the catalog *)

\* time.Parse(time.RFC3339, s) of a text "<day>T<hour>:00:00<zone>": the
\* instant, in hours, or an error when a field is out of range
ParseTime(s) ==
    IF s.hour \in 0..23 /\ s.zone \in (-23)..23 /\ s.day >= 1
    THEN [t |-> s.day * 24 + s.hour - s.zone, err |-> "nil"]
    ELSE [t |-> 0, err |-> "time"]

Digits == <<"0", "1", "2", "3", "4", "5", "6", "7", "8", "9">>

IsDigit(c) == \E i \in 1..Len(Digits) : Digits[i] = c

DigitVal(c) == (CHOOSE i \in 1..Len(Digits) : Digits[i] = c) - 1

RECURSIVE DecimalValue(_, _)
DecimalValue(s, acc) ==
    IF s = <<>> THEN acc ELSE DecimalValue(Tail(s), 10 * acc + DigitVal(Head(s)))

\* strconv.Atoi: an optional sign, then one or more decimal digits
Atoi(s) ==
    LET signed == s # <<>> /\ Head(s) \in {"+", "-"}
        digits == IF signed THEN Tail(s) ELSE s
    IN  IF digits = <<>> \/ \E i \in 1..Len(digits) : ~IsDigit(digits[i])
        THEN [n |-> 0, err |-> "size"]
        ELSE [n |-> IF signed /\ Head(s) = "-"
                    THEN 0 - DecimalValue(digits, 0) ELSE DecimalValue(digits, 0),
              err |-> "nil"]

\* the nil *VolumeBackup
NilVolumeBackup == [nil |-> TRUE, Name |-> <<>>, BackupPath |-> <<>>, Backups |-> <<>>]

\* the comparison the other way round (descending)
BeforeReversed(a, b) == b.Timestamp < a.Timestamp

\* the less function handed to sort.Slice
Before(a, b) == a.Timestamp < b.Timestamp

Swap(s, i, j) == [s EXCEPT ![i] = s[j], ![j] = s[i]]

\* data.Less(i, j) and data.Swap(i, j) of sort.Slice, on indices from 0
Less(s, i, j) == Before(s[i + 1], s[j + 1])

SwapAt(s, i, j) == Swap(s, i + 1, j + 1)

\* slices of at most this length are sorted by insertion
maxInsertion == 12

RECURSIVE SiftLeft(_, _, _)
SiftLeft(s, a, j) ==
    IF j > a /\ Less(s, j, j - 1) THEN SiftLeft(SwapAt(s, j, j - 1), a, j - 1) ELSE s

RECURSIVE InsertionSortFrom(_, _, _, _)
InsertionSortFrom(s, a, b, i) ==
    IF i >= b THEN s ELSE InsertionSortFrom(SiftLeft(s, a, i), a, b, i + 1)

\* insertion sort of s[a:b]
insertionSort_func(s, a, b) == InsertionSortFrom(s, a, b, a + 1)

\* the indices x, y in the order of their elements, and the swaps counted
order2_func(s, x, y, swaps) ==
    IF Less(s, y, x) THEN [x |-> y, y |-> x, swaps |-> swaps + 1]
    ELSE [x |-> x, y |-> y, swaps |-> swaps]

\* the index, among a, b and c, of the median element
median_func(s, a, b, c) ==
    LET r1 == order2_func(s, a, b, 0)
        r2 == order2_func(s, r1.y, c, r1.swaps)
        r3 == order2_func(s, r1.x, r2.x, r2.swaps)
    IN  [pivot |-> r3.y, swaps |-> r3.swaps]

\* the pivot of s[a:b] for fewer than 50 elements: the median of three for 8
\* elements or more; the slice looks ascending when nothing was out of order
choosePivot_func(s, a, b) ==
    LET l == b - a
        i == a + (l \div 4)
        j == a + (l \div 4) * 2
        k == a + (l \div 4) * 3
        m == IF l >= 8 THEN median_func(s, i, j, k) ELSE [pivot |-> j, swaps |-> 0]
    IN  [pivot |-> m.pivot, increasing |-> (m.swaps = 0)]

\* on fewer than 50 elements nothing is moved: TRUE when s[a:b] is in order
partialInsertionSort_func(s, a, b) ==
    \A i \in (a + 1)..(b - 1) : ~Less(s, i, i - 1)

RECURSIVE ScanUp(_, _, _, _)
\* for i <= j && data.Less(i, a) { i++ }
ScanUp(s, a, i, j) == IF i <= j /\ Less(s, i, a) THEN ScanUp(s, a, i + 1, j) ELSE i

RECURSIVE ScanDown(_, _, _, _)
\* for i <= j && !data.Less(j, a) { j-- }
ScanDown(s, a, i, j) == IF i <= j /\ ~Less(s, j, a) THEN ScanDown(s, a, i, j - 1) ELSE j

RECURSIVE PartitionLoop(_, _, _, _)
PartitionLoop(s, a, i, j) ==
    LET i2 == ScanUp(s, a, i, j)
        j2 == ScanDown(s, a, i2, j)
    IN  IF i2 > j2 THEN [s |-> s, j |-> j2]
        ELSE PartitionLoop(SwapAt(s, i2, j2), a, i2 + 1, j2 - 1)

\* one partition of s[a:b] around the element at pivot: smaller elements end
\* before index mid, the pivot at mid, the others after it
partition_func(s, a, b, pivot) ==
    LET s1 == SwapAt(s, a, pivot)
        i == ScanUp(s1, a, a + 1, b - 1)
        j == ScanDown(s1, a, i, b - 1)
    IN  IF i > j THEN [s |-> SwapAt(s1, j, a), mid |-> j]
        ELSE LET r == PartitionLoop(SwapAt(s1, i, j), a, i + 1, j - 1)
             IN  [s |-> SwapAt(r.s, r.j, a), mid |-> r.j]

RECURSIVE pdqsort_func(_, _, _)
\* pdqsort_func on s[a:b], as it runs on at most maxInsertion + 1 elements:
\* both parts of the one partition are then sorted by insertion, and the
\* passes for unbalanced partitions and for runs of equal elements (at
\* a > 0) are never entered
pdqsort_func(s, a, b) ==
    IF b - a <= maxInsertion THEN insertionSort_func(s, a, b)
    ELSE LET c == choosePivot_func(s, a, b)
         IN  IF c.increasing /\ partialInsertionSort_func(s, a, b) THEN s
             ELSE LET p == partition_func(s, a, b, c.pivot)
                  IN  pdqsort_func(pdqsort_func(p.s, a, p.mid), p.mid + 1, b)

\* sort.Slice(volumeBackup.Backups, less)
sortSlice(s) == pdqsort_func(s, 0, Len(s))

RECURSIVE readBackupsFrom(_, _, _, _, _)
\* the loop of readBackups over the descriptors: files[i] is the content of
\* the i-th listed descriptor and io[i] what opening and reading it did
readBackupsFrom(path, files, io, i, backups) ==
    IF i > Len(files)
    THEN [err |-> "nil",
          vb |-> [nil |-> FALSE, Name |-> path[Len(path)], BackupPath |-> path,
                  Backups |-> sortSlice(backups)]]
    ELSE LET cfg == files[i]
             timestamp == ParseTime(cfg.CreatedTime)
             size == Atoi(cfg.Size)
         IN  IF io[i] = "open_err" THEN [err |-> "open", vb |-> NilVolumeBackup]
             \* the error of io.ReadAll is dropped; data cut short is no JSON value
             ELSE IF io[i] = "read_cut" \/ ~cfg.json THEN [err |-> "json", vb |-> NilVolumeBackup]
             ELSE IF timestamp.err # "nil" THEN [err |-> "time", vb |-> NilVolumeBackup]
             ELSE IF size.err # "nil" THEN [err |-> "size", vb |-> NilVolumeBackup]
             ELSE readBackupsFrom(path, files, io, i + 1,
                      Append(backups, [Identifier |-> i,
                                       Timestamp |-> timestamp.t,
                                       Size |-> size.n,
                                       Compression |-> cfg.CompressionMethod,
                                       Blocks |-> cfg.Blocks]))

readBackups(path, files, io) == readBackupsFrom(path, files, io, 1, <<>>)

----------------------------------------------------------------------------
(* The backup store the runs are made on *)

TargetName == <<"v", "o", "l">>

\* main prints block.Checksum[0:20]
ChecksumPrefixLen == 20

CkA == Rep("a", ChecksumPrefixLen)
CkB == Rep("b", ChecksumPrefixLen)
CkG == Rep("c", ChecksumPrefixLen)
CkSB == Rep("s", ChecksumPrefixLen)
CkWrap == Rep("x", ChecksumPrefixLen)
CkMissing == Rep("m", ChecksumPrefixLen)
CkShort == <<"a", "b">>

\* the payload files: shard directories, checksum, content
BlockFiles ==
    { [s1 |-> <<"a", "b">>, s2 |-> <<"c", "d">>, ck |-> CkA, bytes |-> <<4, 2, 1>>],
      [s1 |-> <<"a", "b">>, s2 |-> <<"0", "1">>, ck |-> CkB, bytes |-> <<4, 3, 2>>],
      [s1 |-> <<"c", "d">>, s2 |-> <<"a", "b">>, ck |-> CkG, bytes |-> <<31, 1, 3>>],
      \* an ext4 superblock: 100 blocks of 1024 << 2 bytes
      [s1 |-> <<"0", "0">>, s2 |-> <<"0", "0">>, ck |-> CkSB,
       bytes |-> <<4, 4, 0, 1, 100, 19, 0, 1, 2, 3, 0>>],
      \* a superblock record whose block-size exponent is 54
      [s1 |-> <<"0", "0">>, s2 |-> <<"0", "1">>, ck |-> CkWrap,
       bytes |-> <<4, 4, 0, 1, 1, 19, 0, 1, 54, 3, 0>>],
      [s1 |-> <<"a", "b">>, s2 |-> <<"a", "b">>, ck |-> CkShort, bytes |-> <<4, 1, 9>>] }

VolumeDir == <<VolumesDir, <<"a", "b">>, <<"c", "d">>, TargetName>>

BlockFilePath(f) == VolumeDir \o <<BlocksDir, f.s1, f.s2, f.ck \o BlkSuffix>>

\* a store that holds the target volume, one that holds another volume
\* only, and one that holds the target one level too high
Stores ==
    { {BlockFilePath(f) : f \in BlockFiles},
      {<<VolumesDir, <<"a", "b">>, <<"c", "d">>, <<"x">>>>},
      {<<VolumesDir, <<"a", "b">>, TargetName>>} }

\* os.ReadFile of a payload file
ReadFile(path) == (CHOOSE f \in BlockFiles : BlockFilePath(f) = path).bytes

T1 == [day |-> 1, hour |-> 0, zone |-> 0]
T2 == [day |-> 2, hour |-> 0, zone |-> 0]
\* the instant of T2, written in another zone
T2z == [day |-> 2, hour |-> 1, zone |-> 1]
T3 == [day |-> 3, hour |-> 0, zone |-> 0]
TBad == [day |-> 1, hour |-> 24, zone |-> 0]

S1024 == <<"1", "0", "2", "4">>

Blk(o, c) == [Offset |-> o, Checksum |-> c]

Cfg(t, sz, m, blocks) ==
    [json |-> TRUE, CreatedTime |-> t, Size |-> sz, CompressionMethod |-> m, Blocks |-> blocks]

\* the descriptor contents a backups directory is filled from
DescriptorContents ==
    { Cfg(T1, S1024, "lz4", <<Blk(0, CkA), Blk(1024, CkSB)>>),
      Cfg(T2, S1024, "lz4", <<Blk(0, CkB)>>),
      Cfg(T2z, S1024, "gzip", <<Blk(1, CkG), Blk(0, CkG)>>),
      Cfg(T3, S1024, "none", <<Blk(0, CkA)>>),
      Cfg(T3, S1024, "lz4", <<Blk(-1, CkB)>>),
      Cfg(T3, S1024, "lz4", <<Blk(1024, CkWrap)>>),
      Cfg(T1, S1024, "lz4", <<>>),
      Cfg(T2, S1024, "lz4", <<Blk(0, CkMissing)>>),
      Cfg(T2, S1024, "lz4", <<Blk(0, CkG)>>),
      Cfg(T2, S1024, "lz4", <<Blk(0, CkShort)>>),
      Cfg(TBad, S1024, "lz4", <<Blk(0, CkA)>>),
      Cfg(T1, <<"x">>, "lz4", <<Blk(0, CkA)>>),
      [Cfg(T1, S1024, "lz4", <<>>) EXCEPT !.json = FALSE] }

Listings == UNION {[1..n -> DescriptorContents] : n \in 0..MaxBackups}

IOOutcomes == {"ok", "open_err", "read_cut", "read_late_err"}

Faulty(io) == {i \in DOMAIN io : io[i] # "ok"}

----------------------------------------------------------------------------
(* main *)

NotLoaded == [called |-> FALSE, err |-> "nil", vb |-> NilVolumeBackup]

NoSuperblock == [err |-> "nil", TotalBlocks |-> {}, BlockSize |-> {}]

NoProbe == [kind |-> "none"]

Init ==
    /\ pc = "start"
    /\ describe = FALSE
    /\ store \in Stores
    /\ volumePath = <<>>
    /\ listing = <<>>
    /\ cfgIO = <<>>
    /\ loaded = NotLoaded
    /\ outFile = [exists |-> FALSE, file |-> EmptyFile]
    /\ cursor = [b |-> 0, k |-> 0]
    /\ faulted = FALSE
    /\ superblock = NoSuperblock
    /\ log = <<>>
    /\ exitMsg = ""
    /\ probe = NoProbe

Fail(msg) == pc' = "exit1" /\ exitMsg' = msg

\* main, lines 229-234
FindVolume ==
    /\ pc = "start"
    /\ LET r == findVolumeBackupPath(store, TargetName)
       IN  IF r.err # "nil"
           THEN Fail("Failed to find backups") /\ UNCHANGED volumePath
           ELSE pc' = "found" /\ volumePath' = r.path /\ UNCHANGED exitMsg
    /\ UNCHANGED <<describe, store, listing, cfgIO, loaded, outFile, cursor, faulted,
                   superblock, log, probe>>

\* main, line 237: the catalog is loaded; the error is looked at later
LoadCatalog ==
    /\ pc = "found"
    /\ \E files \in Listings :
         \E io \in [DOMAIN files -> IOOutcomes] :
            /\ Cardinality(Faulty(io)) <= 1
            /\ listing' = files
            /\ cfgIO' = io
            /\ faulted' = (Faulty(io) # {})
            /\ loaded' = [called |-> TRUE,
                          err |-> readBackups(volumePath, files, io).err,
                          vb |-> readBackups(volumePath, files, io).vb]
    /\ pc' = "loaded"
    /\ UNCHANGED <<describe, store, volumePath, outFile, cursor, superblock, log,
                   exitMsg, probe>>

\* main, lines 239-255: -describe reads volumeBackup.Backups and exits
Describe ==
    /\ pc = "loaded"
    /\ describe' = TRUE
    /\ pc' = IF loaded.vb.nil THEN "panic" ELSE "exit0"
    /\ UNCHANGED <<store, volumePath, listing, cfgIO, loaded, outFile,
                   cursor, faulted, superblock, log, exitMsg, probe>>

\* main, lines 259-262
CheckLoad ==
    /\ pc = "loaded"
    /\ describe' = FALSE
    /\ IF loaded.err # "nil"
       THEN Fail("Failed to read backups")
       ELSE pc' = "checked" /\ UNCHANGED exitMsg
    /\ UNCHANGED <<store, volumePath, listing, cfgIO, loaded, outFile,
                   cursor, faulted, superblock, log, probe>>

\* the blocks of the catalog, as (backup index, block index) pairs
BlockPositions(backups) ==
    UNION {{<<b, k>> : k \in 1..Len(backups[b].Blocks)} : b \in 1..Len(backups)}

PosLess(p, q) == p[1] < q[1] \/ (p[1] = q[1] /\ p[2] < q[2])

\* the variant in which the loops go on from the last block, skipping those between
NextPositionSkipping(backups, cur) ==
    LET later == {p \in BlockPositions(backups) : PosLess(<<cur.b, cur.k>>, p)}
    IN  IF later = {} THEN [b |-> Len(backups) + 1, k |-> 0]
        ELSE LET p == CHOOSE x \in later : \A y \in later : x = y \/ PosLess(y, x)
             IN  [b |-> p[1], k |-> p[2]]

\* the position the nested loops of main reach after position cur
NextPosition(backups, cur) ==
    LET later == {p \in BlockPositions(backups) : PosLess(<<cur.b, cur.k>>, p)}
    IN  IF later = {} THEN [b |-> Len(backups) + 1, k |-> 0]
        ELSE LET p == CHOOSE x \in later : \A y \in later : x = y \/ PosLess(x, y)
             IN  [b |-> p[1], k |-> p[2]]

AtEnd(backups, cur) == cur.b > Len(backups)

\* main, lines 264-289: the output directory, an existing output file and the
\* answer to the overwrite prompt, os.Remove and os.Create
CreateOutput ==
    /\ pc = "checked"
    /\ \E env \in {"fresh", "nodir", "declined", "overwrite", "create_fails"} :
         CASE env = "nodir" ->
                /\ Fail("Output directory does not exist")
                /\ UNCHANGED <<outFile, cursor, faulted, log>>
           [] env = "declined" ->
                /\ Fail("Aborting")
                /\ UNCHANGED <<outFile, cursor, faulted, log>>
           [] env = "create_fails" ->
                /\ ~faulted
                /\ faulted' = TRUE
                /\ Fail("Failed to create output file")
                /\ UNCHANGED <<outFile, cursor, log>>
           [] OTHER ->
                LET first == NextPosition(loaded.vb.Backups, [b |-> 0, k |-> 0])
                IN  /\ outFile' = [exists |-> TRUE, file |-> EmptyFile]
                    /\ log' = (IF env = "overwrite" THEN <<[op |-> "remove"]>> ELSE <<>>)
                              \o <<[op |-> "create"]>>
                    /\ cursor' = first
                    /\ pc' = IF AtEnd(loaded.vb.Backups, first) THEN "superblock" ELSE "replay"
                    /\ UNCHANGED <<faulted, exitMsg>>
    /\ UNCHANGED <<describe, store, volumePath, listing, cfgIO, loaded, superblock, probe>>

\* the counts of bytes a write of data may be cut to when it fails
ShortWrites(data) == {0, Len(data) \div 2} \ {Len(data)}

\* main, lines 292-330: one pass of the inner loop, for the block at cursor
ReplayBlock ==
    /\ pc = "replay"
    /\ LET backup == loaded.vb.Backups[cursor.b]
           block == backup.Blocks[cursor.k]
           resolved == resolveBlockPath(store, loaded.vb.BackupPath, block.Checksum)
           next == NextPosition(loaded.vb.Backups, cursor)
       IN  IF Len(block.Checksum) < ChecksumPrefixLen
           THEN \* block.Checksum[0:20] is out of range
                /\ pc' = "panic"
                /\ UNCHANGED <<outFile, cursor, faulted, log, exitMsg>>
           ELSE IF resolved.err # "nil"
           THEN /\ Fail("Failed to resolve block")
                /\ UNCHANGED <<outFile, cursor, faulted, log>>
           ELSE \/ \* os.ReadFile fails
                   /\ ~faulted
                   /\ faulted' = TRUE
                   /\ Fail("Failed to read block")
                   /\ UNCHANGED <<outFile, cursor, log>>
                \/ LET payload == ReadFile(resolved.path)
                       decoded == DecompressAs(backup.Compression, payload)
                   IN  IF decoded.err # "nil"
                       THEN /\ Fail("Failed to decompress block")
                            /\ UNCHANGED <<outFile, cursor, faulted, log>>
                       ELSE \E n \in ShortWrites(decoded.data) \cup {Len(decoded.data)} :
                              /\ n < Len(decoded.data) => ~faulted
                              /\ faulted' = (faulted \/ n < Len(decoded.data))
                              /\ outFile' = [outFile EXCEPT !.file =
                                     writeBlockToBuffer(decoded.data, block.Offset, @, n)]
                              /\ log' = Append(log, [op |-> "write", b |-> cursor.b, k |-> cursor.k,
                                                     id |-> backup.Identifier,
                                                     offset |-> block.Offset,
                                                     data |-> decoded.data,
                                                     at |-> fileSeek(outFile.file, block.Offset).pos,
                                                     n |-> n])
                              /\ cursor' = next
                              /\ pc' = IF AtEnd(loaded.vb.Backups, next) THEN "superblock" ELSE "replay"
                              /\ UNCHANGED exitMsg
    /\ UNCHANGED <<describe, store, volumePath, listing, cfgIO, loaded, superblock, probe>>

\* main, lines 333-338; the seek or the read may also fail in the system
ReadSuperblock ==
    /\ pc = "superblock"
    /\ \E ioerr \in BOOLEAN :
       LET sb == IF ioerr THEN [NoSuperblock EXCEPT !.err = "io"]
                 ELSE readSuperblock(outFile.file)
       IN  /\ ioerr => ~faulted
           /\ faulted' = (faulted \/ ioerr)
           /\ superblock' = sb
           /\ log' = Append(log, [op |-> "readsb",
                                  ioerr |-> ioerr,
                                  size |-> outFile.file.size,
                                  blockCount |-> Uint32At(outFile.file, superblockOffset + 4),
                                  log2Field |-> Uint32At(outFile.file, superblockOffset + 24)])
           /\ IF sb.err # "nil"
              THEN Fail("Failed to read superblock")
              ELSE pc' = "truncate" /\ UNCHANGED exitMsg
    /\ UNCHANGED <<describe, store, volumePath, listing, cfgIO, loaded, outFile, cursor,
                   probe>>

\* main, lines 339-343: the error of Truncate is not looked at
Truncate ==
    /\ pc = "truncate"
    /\ outFile' = [outFile EXCEPT !.file = fileTruncate(@, ImageSize(superblock))]
    /\ log' = Append(log, [op |-> "truncate", size |-> ImageSize(superblock)])
    /\ pc' = "done"
    /\ UNCHANGED <<describe, store, volumePath, listing, cfgIO, loaded, cursor, faulted,
                   superblock, exitMsg, probe>>

Next ==
    \/ FindVolume
    \/ LoadCatalog
    \/ Describe
    \/ CheckLoad
    \/ CreateOutput
    \/ ReplayBlock
    \/ ReadSuperblock
    \/ Truncate

Spec == Init /\ [][Next]_vars

----------------------------------------------------------------------------
(* Stand-alone lookups: findVolumeBackupPath and resolveBlockPath on small *)
(* trees, for names that may hold pattern characters.                      *)

ProbeNames == {<<"a">>, <<"b">>, <<"a", "b">>, <<"*">>, <<"?">>, <<"a", "*">>}

\* the names the entries of a tree bear
EntryNames == {<<"a">>, <<"b">>, <<"a", "b">>, <<"*">>}

ProbeShards == {<<"a">>, <<".", "b">>}

\* where a lookup of the kind searches: below root, in directory dir, for
\* the name followed by suffix
ProbeLayout(kind) ==
    IF kind = "volume" THEN [root |-> <<>>, dir |-> VolumesDir, suffix |-> <<>>]
    ELSE [root |-> <<<<"v">>>>, dir |-> BlocksDir, suffix |-> BlkSuffix]

\* entries two levels below dir, and entries one and three levels below it
ProbeEntries(kind) ==
    LET l == ProbeLayout(kind)
    IN  {l.root \o <<l.dir, s1, s2, n \o l.suffix>> : s1 \in ProbeShards, s2 \in ProbeShards, n \in EntryNames}
        \cup {l.root \o <<l.dir, s1, n \o l.suffix>> : s1 \in {<<"a">>}, n \in EntryNames}
        \cup {l.root \o <<l.dir, s1, s1, s1, n \o l.suffix>> : s1 \in {<<"a">>}, n \in EntryNames}

ProbeTrees(kind) ==
    UNION {{{f[i] : i \in 1..n} : f \in [1..n -> ProbeEntries(kind)]} : n \in 0..MaxEntries}

InitLookup ==
    /\ pc = "lookup"
    /\ \E kind \in {"volume", "block"} :
         \E tree \in ProbeTrees(kind), name \in ProbeNames :
            probe = [kind |-> kind, tree |-> tree, name |-> name]
    /\ describe = FALSE
    /\ store = {}
    /\ volumePath = <<>>
    /\ listing = <<>>
    /\ cfgIO = <<>>
    /\ loaded = NotLoaded
    /\ outFile = [exists |-> FALSE, file |-> EmptyFile]
    /\ cursor = [b |-> 0, k |-> 0]
    /\ faulted = FALSE
    /\ superblock = NoSuperblock
    /\ log = <<>>
    /\ exitMsg = ""

Lookup ==
    /\ pc = "lookup"
    /\ pc' = "looked"
    /\ probe' = [kind |-> probe.kind, tree |-> probe.tree, name |-> probe.name,
                 result |-> IF probe.kind = "volume"
                            THEN findVolumeBackupPath(probe.tree, probe.name)
                            ELSE resolveBlockPath(probe.tree, ProbeLayout("block").root, probe.name)]
    /\ UNCHANGED <<describe, store, volumePath, listing, cfgIO, loaded, outFile, cursor,
                   faulted, superblock, log, exitMsg>>

NextLookup == Lookup

SpecLookup == InitLookup /\ [][NextLookup]_vars

-----------------------------------------------------------------------------
(* Stand-alone sorts: the sort.Slice call of readBackups on the backups   *)
(* collected from up to maxInsertion + 1 descriptors, whose creation      *)
(* instants are drawn from 1..MaxInstant.                                 *)

MaxInstant == 2

\* the backups readBackups has appended before it sorts: the i-th listed
\* descriptor, created at instant f[i]
Collected(f) ==
    [i \in DOMAIN f |-> [Identifier |-> i, Timestamp |-> f[i], Size |-> 1024,
                         Compression |-> "lz4", Blocks |-> <<Blk(0, CkA)>>]]

\* what readBackups has collected from at most maxLen descriptors
SortInputs(maxLen) ==
    UNION {{Collected(f) : f \in [1..n -> 1..MaxInstant]} : n \in 0..maxLen}

InitSort ==
    /\ pc = "sort"
    /\ \E backups \in SortInputs(maxInsertion + 1) : probe = [kind |-> "sort", backups |-> backups]
    /\ describe = FALSE
    /\ store = {}
    /\ volumePath = <<>>
    /\ listing = <<>>
    /\ cfgIO = <<>>
    /\ loaded = NotLoaded
    /\ outFile = [exists |-> FALSE, file |-> EmptyFile]
    /\ cursor = [b |-> 0, k |-> 0]
    /\ faulted = FALSE
    /\ superblock = NoSuperblock
    /\ log = <<>>
    /\ exitMsg = ""

Sort ==
    /\ pc = "sort"
    /\ pc' = "sorted"
    /\ probe' = [kind |-> "sort", backups |-> probe.backups,
                 result |-> sortSlice(probe.backups)]
    /\ UNCHANGED <<describe, store, volumePath, listing, cfgIO, loaded, outFile, cursor,
                   faulted, superblock, log, exitMsg>>

NextSort == Sort

SpecSort == InitSort /\ [][NextSort]_vars

----------------------------------------------------------------------------
(* Properties *)

\* main has called readBackups
CatalogLoaded == loaded.called

IsWrite(e) == e.op = "write"

\* the writes issued so far, in order
Writes == SelectSeq(log, IsWrite)

\* the bytes [offset, offset + Len(content)) of the output file are content
ImageHolds(offset, content) ==
    /\ ~BitsLessNat(outFile.file.size, offset + Len(content))
    /\ \A q \in 1..Len(content) : ByteAt(outFile.file, offset + q - 1) = content[q]

\* what the payload of a block decodes to under the backup's declared method;
\* there is no such content when the method names no format
DecompressedContent(backup, block) ==
    Decode(ReadFile(resolveBlockPath(store, loaded.vb.BackupPath, block.Checksum).path),
           backup.Compression)

\* no write issued after log[j] touched a byte of [offset, offset + len)
UntouchedAfter(j, offset, len) ==
    \A m \in (j + 1)..Len(log) :
        IsWrite(log[m]) =>
            \A p \in log[m].at..(log[m].at + log[m].n - 1) : p < offset \/ p >= offset + len

\* C1 (as claimed): when the replay loop has completed, for backups B1 and B2
\* with B1 created strictly before B2 that both hold a block at offset O, the
\* bytes of the image at O are the decompressed content of B2's block (B2's
\* block being the last write that touches them).
C1_LastWriteWins ==
    pc = "superblock" =>
        \A i \in DOMAIN log, j \in DOMAIN log :
            LET b2 == loaded.vb.Backups[log[j].b]
                content == DecompressedContent(b2, b2.Blocks[log[j].k])
            IN  ( /\ IsWrite(log[i]) /\ IsWrite(log[j])
                  /\ loaded.vb.Backups[log[i].b].Timestamp < b2.Timestamp
                  /\ log[i].offset = log[j].offset
                  /\ UntouchedAfter(j, log[j].offset, Len(log[j].data)) )
                => (content.err = "nil" /\ ImageHolds(log[j].offset, content.data))

\* C2 (amended): a successful readBackups returns every descriptor exactly
\* once, each parsed from its own file, in ascending order of creation time
\* in which descriptors of equal creation time are neighbours.
C2_CatalogSorted ==
    (CatalogLoaded /\ loaded.err = "nil") =>
        LET bs == loaded.vb.Backups
        IN  /\ ~loaded.vb.nil
            /\ Len(bs) = Len(listing)
            /\ \A d \in DOMAIN listing : Cardinality({i \in DOMAIN bs : bs[i].Identifier = d}) = 1
            /\ \A i \in DOMAIN bs :
                  /\ bs[i].Timestamp = ParseTime(listing[bs[i].Identifier].CreatedTime).t
                  /\ bs[i].Compression = listing[bs[i].Identifier].CompressionMethod
                  /\ bs[i].Blocks = listing[bs[i].Identifier].Blocks
            /\ \A i \in DOMAIN bs, j \in DOMAIN bs : i < j => bs[i].Timestamp <= bs[j].Timestamp

\* C2 (as claimed): the sequence a successful readBackups returns is strictly
\* ascending by creation timestamp, for every set of descriptors.
C2_StrictlyAscending ==
    (CatalogLoaded /\ loaded.err = "nil") =>
        \A i \in DOMAIN loaded.vb.Backups, j \in DOMAIN loaded.vb.Backups :
            i < j => loaded.vb.Backups[i].Timestamp < loaded.vb.Backups[j].Timestamp

\* two descriptors listed later-first were loaded and put in order
C2_Witness ==
    /\ pc = "loaded" /\ loaded.err = "nil" /\ Len(listing) = 2
    /\ ParseTime(listing[2].CreatedTime).t < ParseTime(listing[1].CreatedTime).t
    /\ loaded.vb.Backups[1].Identifier = 2

\* C3 (as claimed): no block of a backup whose compression method is neither
\* "lz4" nor "gzip" is ever written to the output file; replaying one ends
\* the run with an error.
C3_UnknownMethodIsError ==
    \A i \in DOMAIN log :
        IsWrite(log[i]) => loaded.vb.Backups[log[i].b].Compression \in {"lz4", "gzip"}

\* C4 (as claimed): a call writeBlockToBuffer(data, O, file) that the system
\* carries out in full sets the bytes [O, O + Len(data)) of the file to data
\* and leaves every other byte as it was, whatever O is.
C4_WriteFrame ==
    [][ (pc = "replay" /\ Len(log') = Len(log) + 1) =>
            LET e == log'[Len(log')]
                span == e.offset..(e.offset + Len(e.data) - 1)
            IN  e.n = Len(e.data) =>
                    \A p \in span \cup DOMAIN outFile.file.data \cup DOMAIN outFile'.file.data :
                        ByteAt(outFile'.file, p) =
                            IF p \in span THEN e.data[p - e.offset + 1] ELSE ByteAt(outFile.file, p)
      ]_vars

\* C5 (as claimed): after a successful run the length of the output file is
\* blockCount * (1024 << log2Field), the product of the two fields read from
\* the image as natural numbers, never wrapped.
C5_TruncatedSize ==
    pc = "done" =>
        \A i \in DOMAIN log :
            log[i].op = "readsb" =>
                IF log[i].blockCount = {} THEN outFile.file.size = {}
                ELSE /\ \A x \in log[i].log2Field : x < 6
                     /\ outFile.file.size =
                            {x + 10 + BitsToNat(log[i].log2Field) : x \in log[i].blockCount}

RECURSIVE Replayed(_, _)
\* the file the writes of a log produce, one after the other
Replayed(entries, f) ==
    IF entries = <<>> THEN f
    ELSE Replayed(Tail(entries),
                  IF IsWrite(Head(entries))
                  THEN writeBlockToBuffer(Head(entries).data, Head(entries).offset, f, Head(entries).n)
                  ELSE f)

SuperblockFailure == pc = "exit1" /\ exitMsg = "Failed to read superblock"

\* C6: when the image is shorter than 1024 + 28 bytes, or the system fails
\* the read, the run ends with the fatal error of the superblock read; the output file then exists
\* with the size and the bytes the replay's writes gave it, and was never
\* truncated or removed.
C6_SuperblockFailureKeepsImage ==
    /\ \A i \in DOMAIN log :
          ( /\ log[i].op = "readsb"
            /\ (log[i].ioerr \/ BitsLessNat(log[i].size, superblockOffset + superblockRawSize)) )
              => (SuperblockFailure /\ i = Len(log))
    /\ SuperblockFailure =>
          /\ outFile.exists
          /\ outFile.file.size = Replayed(log, EmptyFile).size
          /\ outFile.file.data = Replayed(log, EmptyFile).data
          /\ \A i \in DOMAIN log : log[i].op \notin {"truncate", "remove"} \/ i = 1

\* the superblock read failed on an image that blocks had been written to
C6_Witness == SuperblockFailure /\ Len(Writes) >= 2 /\ outFile.file.size # {}

\* C7 (as claimed): when the seek or the write of a block fails, the run
\* ends there with a failure status: nothing is issued on the file after it.
C7_FailStop ==
    \A i \in DOMAIN log :
        (IsWrite(log[i]) /\ (log[i].offset < 0 \/ log[i].n < Len(log[i].data)))
            => (i = Len(log) /\ pc = "exit1")

\* C8 (as claimed): when opening or reading a descriptor fails, or its JSON,
\* its timestamp or its size does not parse, readBackups returns an error
\* and no VolumeBackup.
C8_AllOrNothing ==
    CatalogLoaded =>
        ( (\E i \in DOMAIN listing :
              \/ cfgIO[i] # "ok"
              \/ ~listing[i].json
              \/ ParseTime(listing[i].CreatedTime).err # "nil"
              \/ Atoi(listing[i].Size).err # "nil")
          => (loaded.err # "nil" /\ loaded.vb.nil) )

\* C9 (as claimed): a lookup returns <root>/<dir>/<s1>/<s2>/<name><suffix>
\* without error when the tree holds such an entry for some s1 and s2, and
\* an empty path with the not-found error when it holds none.
C9_ShardLookup ==
    pc = "looked" =>
        LET l == ProbeLayout(probe.kind)
            depth == Len(l.root) + 4
            IsTarget(q) == /\ Len(q) >= depth
                           /\ IsPrefix(l.root \o <<l.dir>>, q)
                           /\ q[depth] = probe.name \o l.suffix
        IN  IF \E q \in probe.tree : IsTarget(q)
            THEN /\ probe.result.err = "nil"
                 /\ Len(probe.result.path) = depth
                 /\ IsTarget(probe.result.path)
                 /\ \E q \in probe.tree : IsPrefix(probe.result.path, q)
            ELSE probe.result.err = "notfound" /\ probe.result.path = <<>>

RECURSIVE Flatten(_, _)
\* the blocks of the backups from the b-th on, backup by backup, each in the
\* order its descriptor declares
Flatten(bs, b) ==
    IF b > Len(bs) THEN <<>>
    ELSE [k \in 1..Len(bs[b].Blocks) |-> <<b, k>>] \o Flatten(bs, b + 1)

\* C10: in a run that ends successfully the writes issued on the output file
\* are the blocks of the catalog, backup by backup in ascending creation time
\* and block by block in declared order, each once, at its declared offset;
\* the superblock is read once and the file truncated once, after the
\* last write; at no time is anything issued on the file after a truncation
\* or a write after the superblock read.
C10_WriteOrder ==
    /\ pc = "done" =>
          LET bs == loaded.vb.Backups
              ws == Writes
          IN  /\ [i \in 1..Len(ws) |-> <<ws[i].b, ws[i].k>>] = Flatten(bs, 1)
              /\ \A i \in DOMAIN ws :
                    /\ ws[i].offset = bs[ws[i].b].Blocks[ws[i].k].Offset
                    /\ ws[i].id = bs[ws[i].b].Identifier
              /\ \A i \in DOMAIN ws, j \in DOMAIN ws :
                    i < j => bs[ws[i].b].Timestamp <= bs[ws[j].b].Timestamp
              /\ Cardinality({i \in DOMAIN log : log[i].op = "readsb"}) = 1
              /\ Cardinality({i \in DOMAIN log : log[i].op = "truncate"}) = 1
              /\ log[Len(log)].op = "truncate"
              /\ log[Len(log) - 1].op = "readsb"
    /\ \A i \in DOMAIN log, j \in DOMAIN log :
          i < j => /\ log[i].op # "truncate"
                   /\ log[i].op = "readsb" => ~IsWrite(log[j])

\* a run ended successfully on two backups that were listed later-first
C10_Witness ==
    /\ pc = "done" /\ Len(listing) = 2 /\ Len(Writes) >= 3
    /\ loaded.vb.Backups[1].Identifier = 2
    /\ loaded.vb.Backups[1].Timestamp < loaded.vb.Backups[2].Timestamp

\* the catalog keeps backups of equal creation time in the order their
\* descriptors were listed
TiesInDiscoveryOrder(bs) ==
    \A i \in DOMAIN bs, j \in DOMAIN bs :
        (i < j /\ bs[i].Timestamp = bs[j].Timestamp) => bs[i].Identifier < bs[j].Identifier

\* C11 (as claimed): whenever descriptors have equal creation timestamps, the
\* sort of readBackups leaves them in their discovery order relative to each
\* other, however many descriptors there are.
C11_TiesKeepDiscoveryOrder ==
    pc = "sorted" => TiesInDiscoveryOrder(probe.result)

\* C11, on a loaded catalog of the runs: tied backups are replayed in the
\* order their descriptors were listed.
C11_TiesInLoadedCatalog ==
    (CatalogLoaded /\ loaded.err = "nil") => TiesInDiscoveryOrder(loaded.vb.Backups)

\* the sort of at most maxInsertion backups keeps ties in discovery order
C11_FewBackupsStable ==
    (pc = "sorted" /\ Len(probe.backups) <= maxInsertion)
        => TiesInDiscoveryOrder(probe.result)

\* the sort returns the collected backups, each once, in ascending order
SortedPermutation ==
    pc = "sorted" =>
        /\ Len(probe.result) = Len(probe.backups)
        /\ \A d \in DOMAIN probe.backups :
              Cardinality({i \in DOMAIN probe.result : probe.result[i] = probe.backups[d]}) = 1
        /\ \A i \in DOMAIN probe.result, j \in DOMAIN probe.result :
              i < j => probe.result[i].Timestamp <= probe.result[j].Timestamp

\* C12 (as claimed): once readBackups has returned an error, main does
\* nothing but end with the "Failed to read backups" failure: it reads no field
\* of the catalog (a read through the nil catalog is a panic) and it neither
\* creates, removes nor writes the output file, in every mode, -describe
\* included.
C12_LoadFailureHandledFirst ==
    (CatalogLoaded /\ loaded.err # "nil") =>
        /\ pc \in {"loaded", "exit1"}
        /\ pc = "exit1" => exitMsg = "Failed to read backups"
        /\ log = <<>>
        /\ ~outFile.exists

\* without -describe a failed load ends in the "Failed to read backups"
\* failure, the output file untouched
C12_RestoreHandlesLoadFailure ==
    (CatalogLoaded /\ loaded.err # "nil" /\ pc # "loaded" /\ ~describe) =>
        /\ pc = "exit1" /\ exitMsg = "Failed to read backups"
        /\ log = <<>>
        /\ ~outFile.exists

====
